---- MODULE Spec2Model ----
(***************************************************************************)
(* superman-detector: the POST handler of detector.go over its login      *)
(* store and geo database.  Every request is served by HandlePost on a    *)
(* goroutine of its own; requests are numbered in the order they arrive   *)
(* and meet only in the login store, one SQL statement at a time.         *)
(***************************************************************************)
EXTENDS Integers, Sequences, FiniteSets, TLC

VARIABLES
    store,      \* env.loginDB: the set of login rows
    pc,         \* per request: "idle", "fetch", "done", "failed"
    lr,         \* per request: the decoded request body (loginRecord)
    loginRow,   \* per request: the models.Login built from lr and the geo record
    insertRes,  \* per request: outcome of models.InsertLogin
    allLogins,  \* per request: rows returned by models.LoginsByUsername
    prevLogin,  \* per request: first result of models.GetAdjacentLogins
    postLogin,  \* per request: second result of models.GetAdjacentLogins
    repOutput,  \* per request: the response map written to rw
    httpStatus, \* per request: 0 (nothing written), 200, 500
    nreq,       \* number of requests received so far
    nfault,     \* number of storage failures so far
    evalA,      \* travel evaluation: first login
    evalB,      \* travel evaluation: second login
    evalOut     \* travel evaluation: result

vars == <<store, pc, lr, loginRow, insertRes, allLogins, prevLogin, postLogin,
          repOutput, httpStatus, nreq, nfault, evalA, evalB, evalOut>>

handlerVars == <<store, pc, lr, loginRow, insertRes, allLogins, prevLogin,
                 postLogin, repOutput, httpStatus, nreq, nfault>>

----------------------------------------------------------------------------
\* Bounds and input universes

MaxRequests == 2

MaxFaults == 1

Requests == 1..MaxRequests

Usernames == {"alice", "bob"}

EventUUIDs == {"e1", "e2", "e3"}

Timestamps == {0, 7185, 7200}

IP_A == <<"1", ".", "1", ".", "1", ".", "1">>

IP_B == <<"2", "5", "5", ".", "2", ".", "2", ".", "2">>

IP_Unknown == <<"1", "0", ".", "0", ".", "0", ".", "9">>

IP_LeadingDot == <<".", "1", ".", "1", ".", "1", ".", "1">>

IP_BigOctet == <<"2", "5", "6", ".", "1", ".", "1", ".", "1">>

IP_ThreeOctets == <<"1", ".", "1", ".", "1">>

Abs(x) == IF x < 0 THEN -x ELSE x

----------------------------------------------------------------------------
\* isValidIP: ^(?:(?:^|\.)(?:2(?:5[0-5]|[0-4]\d)|1?\d?\d)){4}$

Digits == {"0", "1", "2", "3", "4", "5", "6", "7", "8", "9"}

CharAt(s, i) == IF i >= 1 /\ i <= Len(s) THEN s[i] ELSE "$"

\* positions just after a match of 2(?:5[0-5]|[0-4]\d)|1?\d?\d starting at i
OctetEnds(s, i) ==
    LET a == CharAt(s, i)
        b == CharAt(s, i + 1)
        c == CharAt(s, i + 2)
    IN  (IF a = "2" /\ b = "5" /\ c \in {"0", "1", "2", "3", "4", "5"}
            THEN {i + 3} ELSE {})
        \cup (IF a = "2" /\ b \in {"0", "1", "2", "3", "4"} /\ c \in Digits
            THEN {i + 3} ELSE {})
        \cup (IF a = "1" /\ b \in Digits /\ c \in Digits THEN {i + 3} ELSE {})
        \cup (IF a \in Digits /\ b \in Digits THEN {i + 2} ELSE {})
        \cup (IF a \in Digits THEN {i + 1} ELSE {})

\* positions just after a match of (?:^|\.)(octet) starting at i
GroupEnds(s, i) ==
    (IF i = 1 THEN OctetEnds(s, i) ELSE {})
    \cup (IF CharAt(s, i) = "." THEN OctetEnds(s, i + 1) ELSE {})

RECURSIVE RepEnds(_, _)
\* positions just after k repetitions of the group, starting at the beginning
RepEnds(s, k) ==
    IF k = 0 THEN {1}
    ELSE UNION {GroupEnds(s, i) : i \in RepEnds(s, k - 1)}

isValidIP(ip) == (Len(ip) + 1) \in RepEnds(ip, 4)

validateInputs_NoUsernameCheck(r) == isValidIP(r.IPAddr) /\ Len(r.EventUUID) > 0

validateInputs(r) ==
    isValidIP(r.IPAddr) /\ Len(r.Username) > 0 /\ Len(r.EventUUID) > 0

----------------------------------------------------------------------------
\* net.ParseIP and the geo database

DigitVal(c) ==
    CASE c = "0" -> 0 [] c = "1" -> 1 [] c = "2" -> 2 [] c = "3" -> 3
      [] c = "4" -> 4 [] c = "5" -> 5 [] c = "6" -> 6 [] c = "7" -> 7
      [] c = "8" -> 8 [] c = "9" -> 9

RECURSIVE FieldValue(_, _, _)
\* decimal value of s[from..to], or -1 when it is empty, too long or not digits
FieldValue(s, from, to) ==
    IF to < from \/ to - from > 2 THEN -1
    ELSE IF s[to] \notin Digits THEN -1
    ELSE IF to = from THEN DigitVal(s[to])
    ELSE LET rest == FieldValue(s, from, to - 1)
         IN  IF rest < 0 THEN -1 ELSE rest * 10 + DigitVal(s[to])

\* four dot-separated decimal fields, each in 0..255
IsDottedQuad(s) ==
    LET dots == {i \in 1..Len(s) : s[i] = "."}
    IN  /\ Cardinality(dots) = 3
        /\ \A i \in dots \cup {Len(s) + 1} :
              LET before == {j \in dots \cup {0} : j < i}
                  from   == (CHOOSE j \in before : \A k \in before : k <= j) + 1
                  v      == FieldValue(s, from, i - 1)
              IN  v >= 0 /\ v <= 255

NilIP == <<>>

ParseIP(s) == IF IsDottedQuad(s) THEN s ELSE NilIP

\* the City records of the geo database; coordinates are kilometres of arc
\* along one great circle (every point has longitude 0)
GeoTable ==
    (IP_A :> [Lat |-> 0, Lon |-> 0, Radius |-> 5])
    @@ (IP_B :> [Lat |-> 1000, Lon |-> 0, Radius |-> 20])

NoGeo == [Lat |-> 0, Lon |-> 0, Radius |-> 0]

CityErr(ip) == ip = NilIP \/ ip \notin DOMAIN GeoTable

City(ip) == IF CityErr(ip) THEN NoGeo ELSE GeoTable[ip]

----------------------------------------------------------------------------
\* package models

\* the zero value of models.Login
NoLogin ==
    [Username |-> "", UnixTimestamp |-> 0, EventUUID |-> "", IPAddr |-> <<>>,
     Lat |-> 0, Lon |-> 0, Radius |-> 0]

InsertLogin_NotIdempotent(db, row) == db \cup {row}

\* insert, idempotent on the event id
InsertLogin(db, row) ==
    IF \E r \in db : r.EventUUID = row.EventUUID THEN db ELSE db \cup {row}

IsSortedByTime(s) ==
    \A i, j \in 1..Len(s) : i < j => s[i].UnixTimestamp <= s[j].UnixTimestamp

SeqsOf(rows) ==
    {s \in [1..Cardinality(rows) -> rows] : \A r \in rows : \E i \in DOMAIN s : s[i] = r}

\* every answer the store may give: the user's rows ascending by timestamp,
\* rows of equal timestamp in any order
LoginsByUsername(db, username) ==
    {s \in SeqsOf({r \in db : r.Username = username}) : IsSortedByTime(s)}

Range(s) == {s[i] : i \in DOMAIN s}

\* scan of the ordered history: the last row strictly before row's timestamp
\* and the first row strictly after it; the zero Login when there is none
GetAdjacentLogins(logins, row) ==
    LET before == {i \in DOMAIN logins : logins[i].UnixTimestamp < row.UnixTimestamp}
        after  == {i \in DOMAIN logins : logins[i].UnixTimestamp > row.UnixTimestamp}
    IN  <<IF before = {} THEN NoLogin
          ELSE logins[CHOOSE i \in before : \A j \in before : j <= i],
          IF after = {} THEN NoLogin
          ELSE logins[CHOOSE i \in after : \A j \in after : i <= j]>>

----------------------------------------------------------------------------
\* package travel

SecondsPerHour == 3600

SpeedUnbounded == 2147483647

\* great-circle distance in km; the modelled points lie on one meridian, where
\* it is the difference of their positions along it
Distance(lat1, lon1, lat2, lon2) == Abs(lat1 - lat2)

\* km/h over the absolute elapsed time; zero elapsed time never divides
Speed(dist, t1, t2) ==
    IF t2 = t1 THEN (IF dist = 0 THEN 0 ELSE SpeedUnbounded)
    ELSE (dist * SecondsPerHour) \div Abs(t2 - t1)

----------------------------------------------------------------------------
\* detector.go

THRESHOLD_KMH == 500

getTravelSpeed_Signed(a, b) ==
    LET speed == Speed(Distance(a.Lat, a.Lon, b.Lat, b.Lon),
                       b.UnixTimestamp, a.UnixTimestamp)
    IN  IF a.UnixTimestamp < b.UnixTimestamp THEN -speed ELSE speed

getTravelSpeed_SamePoint(a, b) ==
    Speed(Distance(a.Lat, a.Lon, a.Lat, a.Lon), b.UnixTimestamp, a.UnixTimestamp)

getTravelSpeed(a, b) ==
    Speed(Distance(a.Lat, a.Lon, b.Lat, b.Lon), b.UnixTimestamp, a.UnixTimestamp)

Suspicious_AtLeast(speed) == speed >= THRESHOLD_KMH

Suspicious(speed) == speed > THRESHOLD_KMH

NoOutput == [k \in {} |-> 0]

ipAccess(login, speed) ==
    [IP |-> login.IPAddr, Speed |-> speed, Lat |-> login.Lat, Lon |-> login.Lon,
     Radius |-> login.Radius, Timestamp |-> login.UnixTimestamp]

RepOutput_PrecedingAlways(cg, prev, post, row) ==
    ("currentGeo" :> cg)
    @@ (("travelToCurrentGeoSuspicious" :> Suspicious(getTravelSpeed(prev, row)))
        @@ ("precedingIpAccess" :> ipAccess(prev, getTravelSpeed(prev, row))))
    @@ (IF Len(post.Username) # 0
        THEN ("travelFromCurrentGeoSuspicious" :> Suspicious(getTravelSpeed(post, row)))
             @@ ("subsequentIpAccess" :> ipAccess(post, getTravelSpeed(post, row)))
        ELSE NoOutput)

\* the response map: currentGeo, and one verdict per adjacent login found
RepOutput(cg, prev, post, row) ==
    ("currentGeo" :> cg)
    @@ (IF Len(prev.Username) # 0
        THEN ("travelToCurrentGeoSuspicious" :> Suspicious(getTravelSpeed(prev, row)))
             @@ ("precedingIpAccess" :> ipAccess(prev, getTravelSpeed(prev, row)))
        ELSE NoOutput)
    @@ (IF Len(post.Username) # 0
        THEN ("travelFromCurrentGeoSuspicious" :> Suspicious(getTravelSpeed(post, row)))
             @@ ("subsequentIpAccess" :> ipAccess(post, getTravelSpeed(post, row)))
        ELSE NoOutput)

currentGeo(record) == [Lat |-> record.Lat, Lon |-> record.Lon, Radius |-> record.Radius]

LoginRow(r, cg) ==
    [Username |-> r.Username, UnixTimestamp |-> r.UnixTimestamp,
     EventUUID |-> r.EventUUID, IPAddr |-> r.IPAddr,
     Lat |-> cg.Lat, Lon |-> cg.Lon, Radius |-> cg.Radius]

\* request bodies that decode to a loginRecord
GoodBodies ==
    [Username : Usernames, UnixTimestamp : Timestamps, EventUUID : EventUUIDs,
     IPAddr : {IP_A, IP_B}]

BadBodies ==
    {[Username |-> "", UnixTimestamp |-> 0, EventUUID |-> "e1", IPAddr |-> IP_A],
     [Username |-> "alice", UnixTimestamp |-> 0, EventUUID |-> "", IPAddr |-> IP_A]}
    \cup [Username : {"alice"}, UnixTimestamp : {0}, EventUUID : {"e1"},
          IPAddr : {IP_Unknown, IP_LeadingDot, IP_BigOctet, IP_ThreeOctets}]

Bodies == GoodBodies \cup BadBodies

NoBody == [Username |-> "", UnixTimestamp |-> 0, EventUUID |-> "", IPAddr |-> <<>>]

\* whether parsePostBody or the geo lookup panics on this body
Rejected(body) == ~validateInputs(body) \/ CityErr(ParseIP(body.IPAddr))

RejectedBodies == {b \in Bodies : Rejected(b)}

AcceptedBodies == {b \in Bodies : ~Rejected(b)}

\* the rows a data.db left by earlier runs may hold when the server starts
StoredBefore ==
    {LoginRow(b, currentGeo(City(ParseIP(b.IPAddr)))) :
        b \in {[Username |-> "alice", UnixTimestamp |-> 0, EventUUID |-> "e1",
                IPAddr |-> IP_A],
               [Username |-> "alice", UnixTimestamp |-> 7200, EventUUID |-> "e2",
                IPAddr |-> IP_B]}}

QueryArg_EventUUID(row) == row.EventUUID

\* the username HandlePost asks the history of
QueryArg(row) == row.Username

FetchAllLogins(db, row) == LoginsByUsername(db, QueryArg(row))

StoreAfterInsert_Skipped(db, row, available) == db

\* the store after the insert statement of HandlePost
StoreAfterInsert(db, row, available) ==
    IF available THEN InsertLogin(db, row) ELSE db

InsertResult(db, row, available) ==
    IF ~available THEN "unavailable"
    ELSE IF \E r \in db : r.EventUUID = row.EventUUID THEN "duplicate"
    ELSE "ok"

NoVerdict == [evaluated |-> FALSE, speed |-> 0, suspicious |-> FALSE]

----------------------------------------------------------------------------
\* HandlePost, in the steps other requests can interleave with

Init ==
    /\ store \in SUBSET StoredBefore
    /\ pc = [r \in Requests |-> "idle"]
    /\ lr = [r \in Requests |-> NoBody]
    /\ loginRow = [r \in Requests |-> NoLogin]
    /\ insertRes = [r \in Requests |-> "none"]
    /\ allLogins = [r \in Requests |-> <<>>]
    /\ prevLogin = [r \in Requests |-> NoLogin]
    /\ postLogin = [r \in Requests |-> NoLogin]
    /\ repOutput = [r \in Requests |-> NoOutput]
    /\ httpStatus = [r \in Requests |-> 0]
    /\ nreq = 0
    /\ nfault = 0
    /\ evalA = NoLogin
    /\ evalB = NoLogin
    /\ evalOut = NoVerdict

\* request r arrives and panics in parsePostBody or on the geo lookup
HandlePostReject(r, body) ==
    /\ r = nreq + 1
    /\ body \in RejectedBodies
    /\ nreq' = nreq + 1
    /\ pc' = [pc EXCEPT ![r] = "failed"]
    /\ lr' = [lr EXCEPT ![r] = body]
    /\ loginRow' = [loginRow EXCEPT ![r] = NoLogin]
    /\ insertRes' = [insertRes EXCEPT ![r] = "none"]
    /\ allLogins' = [allLogins EXCEPT ![r] = <<>>]
    /\ prevLogin' = [prevLogin EXCEPT ![r] = NoLogin]
    /\ postLogin' = [postLogin EXCEPT ![r] = NoLogin]
    /\ repOutput' = [repOutput EXCEPT ![r] = NoOutput]
    /\ httpStatus' = [httpStatus EXCEPT ![r] = 0]
    /\ UNCHANGED <<store, nfault, evalA, evalB, evalOut>>

\* request r arrives, is validated and geolocated, and its row inserted
HandlePostPersist(r, body, available) ==
    /\ r = nreq + 1
    /\ body \in AcceptedBodies
    /\ available \/ nfault < MaxFaults
    /\ nfault' = IF available THEN nfault ELSE nfault + 1
    /\ LET row == LoginRow(body, currentGeo(City(ParseIP(body.IPAddr))))
       IN  /\ loginRow' = [loginRow EXCEPT ![r] = row]
           /\ insertRes' = [insertRes EXCEPT ![r] = InsertResult(store, row, available)]
           /\ store' = StoreAfterInsert(store, row, available)
    /\ nreq' = nreq + 1
    /\ pc' = [pc EXCEPT ![r] = "fetch"]
    /\ lr' = [lr EXCEPT ![r] = body]
    /\ allLogins' = [allLogins EXCEPT ![r] = <<>>]
    /\ prevLogin' = [prevLogin EXCEPT ![r] = NoLogin]
    /\ postLogin' = [postLogin EXCEPT ![r] = NoLogin]
    /\ repOutput' = [repOutput EXCEPT ![r] = NoOutput]
    /\ httpStatus' = [httpStatus EXCEPT ![r] = 0]
    /\ UNCHANGED <<evalA, evalB, evalOut>>

\* the history query fails: status 500, then panic
HandlePostFetchError(r) ==
    /\ pc[r] = "fetch"
    /\ nfault < MaxFaults
    /\ nfault' = nfault + 1
    /\ pc' = [pc EXCEPT ![r] = "failed"]
    /\ httpStatus' = [httpStatus EXCEPT ![r] = 500]
    /\ UNCHANGED <<store, lr, loginRow, insertRes, allLogins, prevLogin, postLogin,
                   repOutput, nreq, evalA, evalB, evalOut>>

\* the history query answers; adjacency, verdicts and the response follow
HandlePostRespond(r) ==
    /\ pc[r] = "fetch"
    /\ \E logins \in FetchAllLogins(store, loginRow[r]) :
          LET adj == GetAdjacentLogins(logins, loginRow[r])
              cg  == currentGeo(loginRow[r])
          IN  /\ allLogins' = [allLogins EXCEPT ![r] = logins]
              /\ prevLogin' = [prevLogin EXCEPT ![r] = adj[1]]
              /\ postLogin' = [postLogin EXCEPT ![r] = adj[2]]
              /\ repOutput' = [repOutput EXCEPT
                                  ![r] = RepOutput(cg, adj[1], adj[2], loginRow[r])]
    /\ pc' = [pc EXCEPT ![r] = "done"]
    /\ httpStatus' = [httpStatus EXCEPT ![r] = 200]
    /\ UNCHANGED <<store, lr, loginRow, insertRes, nreq, nfault, evalA, evalB, evalOut>>

Next ==
    \/ \E r \in Requests, body \in Bodies : HandlePostReject(r, body)
    \/ \E r \in Requests, body \in Bodies, available \in BOOLEAN :
          HandlePostPersist(r, body, available)
    \/ \E r \in Requests : HandlePostFetchError(r)
    \/ \E r \in Requests : HandlePostRespond(r)

Spec == Init /\ [][Next]_vars

----------------------------------------------------------------------------
\* The travel evaluation on its own: getTravelSpeed and the threshold test of
\* HandlePost applied to any two logins

TravelLats == {0, 1, 1000, 20000}

TravelLogins ==
    [Username : {"alice"}, UnixTimestamp : Timestamps, EventUUID : {"e1"},
     IPAddr : {IP_A}, Lat : TravelLats, Lon : {0}, Radius : {5}]

InitTravel ==
    /\ store = {}
    /\ pc = [r \in Requests |-> "idle"]
    /\ lr = [r \in Requests |-> NoBody]
    /\ loginRow = [r \in Requests |-> NoLogin]
    /\ insertRes = [r \in Requests |-> "none"]
    /\ allLogins = [r \in Requests |-> <<>>]
    /\ prevLogin = [r \in Requests |-> NoLogin]
    /\ postLogin = [r \in Requests |-> NoLogin]
    /\ repOutput = [r \in Requests |-> NoOutput]
    /\ httpStatus = [r \in Requests |-> 0]
    /\ nreq = 0
    /\ nfault = 0
    /\ evalA \in TravelLogins
    /\ evalB \in TravelLogins
    /\ evalOut = NoVerdict

Evaluate ==
    /\ ~evalOut.evaluated
    /\ evalOut' = [evaluated |-> TRUE,
                   speed |-> getTravelSpeed(evalA, evalB),
                   suspicious |-> Suspicious(getTravelSpeed(evalA, evalB))]
    /\ UNCHANGED <<handlerVars, evalA, evalB>>

NextTravel == Evaluate

SpecTravel == InitTravel /\ [][NextTravel]_vars

----------------------------------------------------------------------------
\* Properties

Present(login) == Len(login.Username) # 0

Arrives(r) == pc[r] = "idle" /\ pc'[r] # "idle"

Responds(r) == pc[r] = "fetch" /\ pc'[r] = "done"

HistoryOf(username) == {h \in store : h.Username = username}

\* prev and post are the nearest neighbours of e in H, strictly before and
\* strictly after e's timestamp
AdjacencyOK(prev, post, H, e) ==
    LET t      == e.UnixTimestamp
        before == {h \in H : h.UnixTimestamp < t}
        after  == {h \in H : h.UnixTimestamp > t}
    IN  /\ Present(prev) <=> before # {}
        /\ Present(post) <=> after # {}
        /\ Present(prev) =>
              /\ prev \in before
              /\ prev # e
              /\ \A h \in before : h.UnixTimestamp <= prev.UnixTimestamp
        /\ Present(post) =>
              /\ post \in after
              /\ post # e
              /\ \A h \in after : post.UnixTimestamp <= h.UnixTimestamp

\* C1: when HandlePost answers, the previous login it uses is a stored login
\* of the same username, other than the new one, with the greatest timestamp
\* strictly below the new one's, the next login one with the least timestamp
\* strictly above it, and each is absent exactly when the stored history has
\* no such login; a login with the new one's timestamp is never used.
C1_Adjacency ==
    [][\A r \in Requests :
          Responds(r) =>
             AdjacencyOK(prevLogin'[r], postLogin'[r],
                         HistoryOf(loginRow[r].Username), loginRow[r])]_vars

C1_Witness ==
    \E r \in Requests :
       /\ pc[r] = "done"
       /\ Present(prevLogin[r])
       /\ Present(postLogin[r])
       /\ \E h \in Range(allLogins[r]) :
             /\ h # loginRow[r]
             /\ h.UnixTimestamp = loginRow[r].UnixTimestamp

KeysTo == {"travelToCurrentGeoSuspicious", "precedingIpAccess"}

KeysFrom == {"travelFromCurrentGeoSuspicious", "subsequentIpAccess"}

\* C2: in every response, each suspicious flag is true exactly when the speed
\* reported beside it is strictly greater than 500 km/h.
C2_Threshold ==
    \A r \in Requests :
       LET out == repOutput[r]
       IN  /\ KeysTo \subseteq DOMAIN out =>
                (out["travelToCurrentGeoSuspicious"]
                    <=> out["precedingIpAccess"].Speed > 500)
           /\ KeysFrom \subseteq DOMAIN out =>
                (out["travelFromCurrentGeoSuspicious"]
                    <=> out["subsequentIpAccess"].Speed > 500)

C2_Witness ==
    \E r1, r2 \in Requests :
       /\ KeysTo \subseteq DOMAIN repOutput[r1]
       /\ repOutput[r1]["precedingIpAccess"].Speed = 500
       /\ ~repOutput[r1]["travelToCurrentGeoSuspicious"]
       /\ KeysTo \subseteq DOMAIN repOutput[r2]
       /\ repOutput[r2]["precedingIpAccess"].Speed = 501
       /\ repOutput[r2]["travelToCurrentGeoSuspicious"]

\* C3: a successful response holds currentGeo, the two preceding keys exactly
\* when the fetched history has a login before the new one, the two
\* subsequent keys exactly when it has one after it, and nothing else; with
\* no other login of the username it holds currentGeo alone.
C3_ResponseShape ==
    \A r \in Requests :
       pc[r] = "done" =>
          LET out    == repOutput[r]
              t      == loginRow[r].UnixTimestamp
              others == Range(allLogins[r]) \ {loginRow[r]}
              hasPrev == \E h \in others : h.UnixTimestamp < t
              hasNext == \E h \in others : h.UnixTimestamp > t
          IN  /\ DOMAIN out \subseteq {"currentGeo"} \cup KeysTo \cup KeysFrom
              /\ "currentGeo" \in DOMAIN out
              /\ out["currentGeo"] = currentGeo(loginRow[r])
              /\ \A k \in KeysTo : k \in DOMAIN out <=> hasPrev
              /\ \A k \in KeysFrom : k \in DOMAIN out <=> hasNext
              /\ hasPrev <=> Present(prevLogin[r])
              /\ hasNext <=> Present(postLogin[r])
              /\ others = {} => DOMAIN out = {"currentGeo"}

C3_Witness ==
    \E r1, r2 \in Requests :
       /\ pc[r1] = "done"
       /\ Range(allLogins[r1]) = {loginRow[r1]}
       /\ DOMAIN repOutput[r1] = {"currentGeo"}
       /\ pc[r2] = "done"
       /\ DOMAIN repOutput[r2] = {"currentGeo"} \cup KeysTo

UniqueEventIds(rows) ==
    \A a, b \in rows : a.EventUUID = b.EventUUID => a = b

\* C4: the store never holds two records with one event id; a request whose
\* event id is already stored leaves the store as it was; and no history a
\* request fetches lists an event id twice.
C4_Idempotent ==
    [][/\ UniqueEventIds(store')
       /\ \A r \in Requests :
             /\ (Arrives(r) /\ \E h \in store : h.EventUUID = lr'[r].EventUUID)
                   => store' = store
             /\ \A i, j \in DOMAIN allLogins'[r] :
                   allLogins'[r][i].EventUUID = allLogins'[r][j].EventUUID => i = j]_vars

C4_Witness ==
    \E r \in Requests :
       /\ pc[r] = "done"
       /\ insertRes[r] = "duplicate"
       /\ loginRow[r] \notin store
       /\ \E h \in Range(allLogins[r]) : h.EventUUID = loginRow[r].EventUUID

\* the request is well formed and its address is known to the geo database
WellFormed(body) ==
    /\ IsDottedQuad(body.IPAddr)
    /\ body.Username # ""
    /\ body.EventUUID # ""
    /\ body.IPAddr \in DOMAIN GeoTable

\* C5: a request goes on to the insert only if its address is a dotted quad
\* the geo database resolves and its username and event id are not empty;
\* any other request ends in failure with the store unchanged and nothing
\* written, and every record that enters the store is the row of a
\* well-formed request.
C5_ValidatedOnly ==
    [][\A r \in Requests :
          /\ Arrives(r) =>
                IF WellFormed(lr'[r])
                THEN pc'[r] = "fetch"
                ELSE /\ pc'[r] = "failed"
                     /\ store' = store
                     /\ repOutput'[r] = NoOutput
                     /\ httpStatus'[r] = 0
          /\ DOMAIN repOutput'[r] # {} => WellFormed(lr'[r])
          /\ \A h \in store' \ store :
                \E q \in Requests :
                   /\ Arrives(q)
                   /\ WellFormed(lr'[q])
                   /\ h = loginRow'[q]]_vars

C5_Witness ==
    \E r1, r2 \in Requests :
       /\ pc[r1] = "failed"
       /\ lr[r1].IPAddr = IP_LeadingDot
       /\ isValidIP(lr[r1].IPAddr)
       /\ pc[r2] = "failed"
       /\ lr[r2].Username = ""
       /\ store \in SUBSET StoredBefore

\* C6: a request whose insert failed for lack of storage never ends with a
\* successful response.
C6_StorageFailureFatal ==
    \A r \in Requests : insertRes[r] = "unavailable" => pc[r] # "done"

\* C7: a request that stored its row fetches a history holding that row, and
\* of two answered requests of one username that both stored their rows, at
\* least one fetched a history holding the other's row.
C7_PersistBeforeFetch ==
    /\ \A r \in Requests :
          (pc[r] = "done" /\ insertRes[r] = "ok")
             => loginRow[r] \in Range(allLogins[r])
    /\ \A r1, r2 \in Requests :
          (/\ r1 # r2
           /\ pc[r1] = "done" /\ insertRes[r1] = "ok"
           /\ pc[r2] = "done" /\ insertRes[r2] = "ok"
           /\ loginRow[r1].Username = loginRow[r2].Username)
             => \/ loginRow[r1] \in Range(allLogins[r2])
                \/ loginRow[r2] \in Range(allLogins[r1])

C7_Witness ==
    \E r1, r2 \in Requests :
       /\ r1 # r2
       /\ pc[r1] = "done" /\ insertRes[r1] = "ok"
       /\ pc[r2] = "done" /\ insertRes[r2] = "ok"
       /\ loginRow[r1] \in Range(allLogins[r1])
       /\ loginRow[r1] \in Range(allLogins[r2])
       /\ loginRow[r2] \in Range(allLogins[r1])

\* C8: two requests of one username are never both between their insert and
\* their history query.
C8_SerializedPerUsername ==
    \A r1, r2 \in Requests :
       (/\ r1 # r2
        /\ pc[r1] = "fetch"
        /\ pc[r2] = "fetch")
          => loginRow[r1].Username # loginRow[r2].Username

ExpectedSpeed(a, b) ==
    (Abs(a.Lat - b.Lat) * 3600) \div Abs(a.UnixTimestamp - b.UnixTimestamp)

\* C9: for stored logins of different timestamps the travel speed is the same
\* in either argument order and not negative, and both speeds a response
\* reports are the distance over the absolute elapsed hours, not negative.
C9_OrderInsensitive ==
    /\ \A a, b \in store :
          a.UnixTimestamp # b.UnixTimestamp =>
             /\ getTravelSpeed(a, b) = getTravelSpeed(b, a)
             /\ getTravelSpeed(a, b) >= 0
    /\ \A r \in Requests :
          LET out == repOutput[r]
          IN  /\ KeysTo \subseteq DOMAIN out =>
                   /\ out["precedingIpAccess"].Speed >= 0
                   /\ out["precedingIpAccess"].Speed
                         = ExpectedSpeed(prevLogin[r], loginRow[r])
              /\ KeysFrom \subseteq DOMAIN out =>
                   /\ out["subsequentIpAccess"].Speed >= 0
                   /\ out["subsequentIpAccess"].Speed
                         = ExpectedSpeed(postLogin[r], loginRow[r])

C9_Witness ==
    \E r \in Requests :
       /\ KeysTo \subseteq DOMAIN repOutput[r]
       /\ KeysFrom \subseteq DOMAIN repOutput[r]
       /\ repOutput[r]["precedingIpAccess"].Speed > 0
       /\ repOutput[r]["subsequentIpAccess"].Speed > 0

\* C10: for two logins of one timestamp the evaluation yields speed 0 and not
\* suspicious when they are at one point, and suspicious whenever they are
\* not, however near.
C10_ZeroElapsed ==
    (evalOut.evaluated /\ evalA.UnixTimestamp = evalB.UnixTimestamp) =>
       IF evalA.Lat = evalB.Lat /\ evalA.Lon = evalB.Lon
       THEN evalOut.speed = 0 /\ ~evalOut.suspicious
       ELSE evalOut.suspicious

C10_Witness ==
    /\ evalOut.evaluated
    /\ evalA.UnixTimestamp = evalB.UnixTimestamp
    /\ Abs(evalA.Lat - evalB.Lat) = 1
    /\ evalOut.suspicious

====
